---- MODULE Spec2Model ----
(***************************************************************************)
(* alfred-browser-tabs: the advisory file lock (lockfile.py) and the icon  *)
(* download coordinator (list-tabs.py) as a state machine.                 *)
(*                                                                         *)
(* Processes are operating-system processes.  The lock record is the file  *)
(* at LOCK_PATH; flock() locks belong to an open file description and so   *)
(* to an inode, not to the path.  Times are in tenths of a second.         *)
(***************************************************************************)
EXTENDS Integers, Sequences, FiniteSets, TLC

\* ------------------------------------------------------------------ bounds
NumProcs == 3
TickStep == 400
MaxTime == 800

\* ------------------------------------------------------- program constants
stale_age_sec == 60
StaleAge == stale_age_sec * 10

Procs == 1..NumProcs
NoIno == 0
Inodes == 1..(NumProcs + 1)

VARIABLES
    now,      \* wall clock
    rec,      \* the file at LOCK_PATH: ino (NoIno: absent), content (<<>> or
              \* <<pid>>), mtime
    lk,       \* per process: alive, pc, and the LockFile object and the locals
              \* of its acquire(): lock_file (state "none"/"open"/"closed" and
              \* inode), flocked, is_retry, pid (is_stale's local, 0: unset),
              \* result of the last acquire(), and of that call: attempts
              \* (flock calls), breaks (break_lock calls), called_at (time)
    judged,   \* <<p, q>>: p's is_stale() returned True while q had the lock
    ctx,      \* what the current acquire() call found when it was called
    files,    \* icon files present in FAVICON_CACHE_DIR
    co,       \* per process: main()'s tabs and timeout, and its IconDownloader
    batch,    \* per process: the curl process it launched
    pr        \* per call of get_favicon_path(): its url argument and the path
              \* it returned (<<>>: not returned yet)

lockVars == <<rec, lk, judged, ctx>>
coVars == <<files, co, batch, pr>>
vars == <<now, lockVars, coVars>>

\* ---------------------------------------------------------------- helpers
NoRecord == [ino |-> NoIno, content |-> <<>>, mtime |-> 0]

NoContext == <<"other", 0>>

\* Processes that acquire() told True and that have not started release().
Holders == {q \in Procs : lk[q].alive /\ lk[q].pc = "returned" /\ lk[q].result = "true"}

\* Inodes still referenced: linked at LOCK_PATH or open in some process.
InUse == {rec.ino} \cup {lk[q].fdIno : q \in {r \in Procs : lk[r].fdState = "open"}}

FreshIno == CHOOSE i \in Inodes : i \notin InUse /\ \A j \in Inodes : j \notin InUse => i <= j

\* As if the lock were taken shared (LOCK_SH): it is never refused.
FlockShared(p) == FALSE

\* fcntl.flock(LOCK_EX | LOCK_NB) raises EWOULDBLOCK: another open file
\* description on the same inode holds the lock.
FlockHeldByOther(p) ==
    \E q \in Procs \ {p} :
        lk[q].flocked /\ lk[q].fdState = "open" /\ lk[q].fdIno = lk[p].fdIno

\* _is_file_stale(): the record is absent, or older than stale_age_sec.
IsFileStale == IF rec.ino = NoIno THEN TRUE ELSE now - rec.mtime > StaleAge

\* As if a process could end with its descriptors left open and its flock
\* still in place.
GoneKeepsFlock(l) == [l EXCEPT !.alive = FALSE, !.pc = "dead"]

\* A process that is gone: the kernel has closed its descriptors and dropped
\* its flock.
Gone(l) ==
    [l EXCEPT !.alive = FALSE, !.pc = "dead", !.flocked = FALSE,
              !.fdState = "none", !.fdIno = NoIno, !.pid = 0, !.is_retry = FALSE,
              !.attempts = 0, !.breaks = 0, !.called_at = 0]

\* acquire() returns r: its frame (is_retry, is_stale's pid) is gone.
Returned(l, r) ==
    [l EXCEPT !.pc = "returned", !.result = r, !.pid = 0, !.is_retry = FALSE]

\* ------------------------------------------------------------ LockFile.acquire
\* self.lock_file = self.lock_file_path.open('w'): creates the record or
\* truncates the one that is there; either way its mtime is now.
AcquireOpen(p) ==
    /\ lk[p].alive /\ lk[p].pc = "open"
    /\ LET ino == IF rec.ino = NoIno THEN FreshIno ELSE rec.ino
       IN /\ rec' = [ino |-> ino, content |-> <<>>, mtime |-> now]
          /\ lk' = [lk EXCEPT ![p].fdState = "open", ![p].fdIno = ino, ![p].pc = "flock"]
    /\ UNCHANGED <<judged, ctx>>

\* fcntl.flock(self.lock_file, LOCK_EX | LOCK_NB)
AcquireFlock(p) ==
    /\ lk[p].alive /\ lk[p].pc = "flock"
    /\ IF FlockHeldByOther(p)
       THEN lk' = [lk EXCEPT ![p].attempts = @ + 1, ![p].pc = "stale_read"]
       ELSE lk' = [lk EXCEPT ![p].attempts = @ + 1, ![p].pc = "write",
                             ![p].flocked = TRUE]
    /\ UNCHANGED <<rec, judged, ctx>>

\* self.lock_file.write(str(os.getpid())); flush(); return True
AcquireWrite(p) ==
    /\ lk[p].alive /\ lk[p].pc = "write"
    /\ IF lk[p].fdIno = rec.ino
       THEN rec' = [rec EXCEPT !.content = <<p>>, !.mtime = now]
       ELSE UNCHANGED rec      \* written to an unlinked inode: nobody reads it
    /\ lk' = [lk EXCEPT ![p] = Returned(@, "true")]
    /\ UNCHANGED <<judged, ctx>>

\* is_stale() has returned v.  acquire() goes on at
\* "if self.is_stale() and not is_retry": break_lock(), or
\* self.lock_file.close(); return False.
AfterIsStale(l, v) ==
    IF v /\ ~l.is_retry
    THEN [l EXCEPT !.pc = "break"]
    ELSE Returned([l EXCEPT !.fdState = "closed", !.fdIno = NoIno], "false")

\* The processes a staleness verdict of p is about: those that hold the OS lock
\* or have been told that they hold the lock.
Judgeable(p) ==
    {q \in Procs \ {p} : lk[q].alive /\ (lk[q].flocked \/ q \in Holders)}

JudgedBy(p, v) == IF v THEN judged \cup {<<p, q>> : q \in Judgeable(p)} ELSE judged

\* is_stale(): pid = int(self.lock_file_path.read_text().strip())
StaleRead(p) ==
    /\ lk[p].alive /\ lk[p].pc = "stale_read"
    /\ IF rec.ino = NoIno
       THEN /\ lk' = [lk EXCEPT ![p] = AfterIsStale(@, TRUE)]   \* FileNotFoundError
            /\ judged' = JudgedBy(p, TRUE)
       ELSE IF rec.content = <<>>
       THEN /\ lk' = [lk EXCEPT ![p].pc = "stale_stat"]          \* ValueError
            /\ UNCHANGED judged
       ELSE /\ lk' = [lk EXCEPT ![p].pid = rec.content[1], ![p].pc = "stale_kill0"]
            /\ UNCHANGED judged
    /\ UNCHANGED <<rec, ctx>>

\* is_stale(): os.kill(pid, 0)
StaleKill0(p) ==
    /\ lk[p].alive /\ lk[p].pc = "stale_kill0"
    /\ IF lk[lk[p].pid].alive
       THEN /\ lk' = [lk EXCEPT ![p].pc = "stale_stat"]
            /\ UNCHANGED judged
       ELSE /\ lk' = [lk EXCEPT ![p] = AfterIsStale(@, TRUE)]   \* ESRCH
            /\ judged' = JudgedBy(p, TRUE)
    /\ UNCHANGED <<rec, ctx>>

\* is_stale(): self._is_file_stale(), after ValueError (pid unset) or with the
\* recorded process running.
StaleStat(p) ==
    /\ lk[p].alive /\ lk[p].pc = "stale_stat"
    /\ IF lk[p].pid = 0
       THEN /\ lk' = [lk EXCEPT ![p] = AfterIsStale(@, IsFileStale)]
            /\ judged' = JudgedBy(p, IsFileStale)
       ELSE IF IsFileStale
       THEN /\ lk' = [lk EXCEPT ![p].pc = "stale_kill9"]
            /\ UNCHANGED judged
       ELSE /\ lk' = [lk EXCEPT ![p] = AfterIsStale(@, FALSE)]
            /\ UNCHANGED judged
    /\ UNCHANGED <<rec, ctx>>

\* is_stale(): os.kill(pid, 9); return True.  A pid that has gone in the
\* meantime makes os.kill raise ProcessLookupError out of acquire().
StaleKill9(p) ==
    /\ lk[p].alive /\ lk[p].pc = "stale_kill9"
    /\ LET q == lk[p].pid
       IN IF ~lk[q].alive
          THEN /\ lk' = [lk EXCEPT ![p] = Returned(@, "raised")]
               /\ UNCHANGED judged
          ELSE /\ lk' = [r \in Procs |->
                            IF r = q THEN Gone(lk[r])
                            ELSE IF r = p THEN AfterIsStale(lk[r], TRUE)
                            ELSE lk[r]]
               /\ judged' = {e \in JudgedBy(p, TRUE) : e[2] # q}
    /\ UNCHANGED <<rec, ctx>>

\* self.break_lock(); return self.acquire(is_retry=True)
BreakLock(p) ==
    /\ lk[p].alive /\ lk[p].pc = "break"
    /\ rec' = NoRecord
    /\ lk' = [lk EXCEPT ![p].breaks = @ + 1, ![p].is_retry = TRUE, ![p].pid = 0,
                        ![p].pc = "open"]
    /\ UNCHANGED <<judged, ctx>>

AcquireStep(p) ==
    \/ AcquireOpen(p)
    \/ AcquireFlock(p)
    \/ AcquireWrite(p)
    \/ StaleRead(p)
    \/ StaleKill0(p)
    \/ StaleStat(p)
    \/ StaleKill9(p)
    \/ BreakLock(p)

\* ------------------------------------------------------------ LockFile.release
\* if self.lock_file: fcntl.flock(self.lock_file, fcntl.LOCK_UN)
ReleaseUnlock(p) ==
    /\ lk[p].alive /\ lk[p].pc = "rel_unlock"
    /\ lk' = [lk EXCEPT ![p].flocked = FALSE, ![p].pc = "rel_close"]
    /\ UNCHANGED <<rec, judged, ctx>>

\* self.lock_file.close(); self.lock_file = None
ReleaseClose(p) ==
    /\ lk[p].alive /\ lk[p].pc = "rel_close"
    /\ lk' = [lk EXCEPT ![p].fdState = "none", ![p].fdIno = NoIno, ![p].pc = "rel_unlink"]
    /\ UNCHANGED <<rec, judged, ctx>>

\* self.lock_file_path.unlink(), FileNotFoundError tolerated: whatever record
\* is at LOCK_PATH goes.
ReleaseUnlink(p) ==
    /\ lk[p].alive /\ lk[p].pc = "rel_unlink"
    /\ rec' = NoRecord
    /\ lk' = [lk EXCEPT ![p].result = "none", ![p].pc = "released"]
    /\ UNCHANGED <<judged, ctx>>

ReleaseStep(p) ==
    \/ ReleaseUnlock(p)
    \/ ReleaseClose(p)
    \/ ReleaseUnlink(p)

\* ------------------------------------------------- clients of the lock, time
Quiet(r) ==
    \/ ~lk[r].alive
    \/ lk[r].pc \in {"idle", "released"}
    \/ lk[r].pc = "returned" /\ lk[r].result # "true"

\* What a call of acquire() by p finds: the record of a process that is gone
\* with nobody at work on the lock; the record of a live holder written more
\* than the threshold ago; anything else.
CallContext(p) ==
    IF rec.ino # NoIno /\ rec.content # <<>> /\ ~lk[rec.content[1]].alive
       /\ \A r \in Procs \ {p} : Quiet(r)
    THEN <<"dead_owner", rec.content[1]>>
    ELSE IF rec.ino # NoIno /\ rec.content # <<>> /\ rec.content[1] \in Holders \ {p}
            /\ now - rec.mtime > StaleAge
            /\ \A r \in Procs \ {p, rec.content[1]} : Quiet(r)
    THEN <<"aged_owner", rec.content[1]>>
    ELSE NoContext

\* The frame of a call of acquire(is_retry=False).
Called(l) ==
    [l EXCEPT !.pc = "open", !.is_retry = FALSE, !.pid = 0, !.result = "none",
              !.attempts = 0, !.breaks = 0, !.called_at = now]

\* self.lockfile.acquire(): the call itself.
DoCall(p) ==
    /\ lk' = [lk EXCEPT ![p] = Called(@)]
    /\ judged' = {e \in judged : e[1] # p}
    /\ ctx' = [r \in Procs |-> IF r = p THEN CallContext(p) ELSE NoContext]
    /\ UNCHANGED rec

\* lock.acquire() is called.
CallAcquire(p) ==
    /\ lk[p].alive /\ lk[p].pc = "idle"
    /\ DoCall(p)

\* lock.release() is called by a process that acquire() told True.
CallRelease(p) ==
    /\ lk[p].alive /\ lk[p].pc = "returned" /\ lk[p].result = "true"
    /\ lk' = [lk EXCEPT ![p].pc = "rel_unlock"]
    /\ judged' = {e \in judged : e[2] # p}
    /\ ctx' = [r \in Procs |-> NoContext]
    /\ UNCHANGED rec

\* A process that holds the lock ends without calling release().
Terminate(p) ==
    /\ lk[p].alive /\ lk[p].pc = "returned" /\ lk[p].result = "true"
    /\ lk' = [lk EXCEPT ![p] = Gone(@)]
    /\ judged' = {e \in judged : e[2] # p}
    /\ ctx' = [r \in Procs |-> NoContext]
    /\ UNCHANGED rec

Tick ==
    /\ now + TickStep <= MaxTime
    /\ now' = now + TickStep
    /\ UNCHANGED <<lockVars, coVars>>

\* ------------------------------------------------------ the lock on its own
NoDownloader ==
    [tabs |-> <<>>, start_time |-> 0, timeout |-> 0, needed |-> <<>>, proc |-> FALSE,
     launched_at |-> 0, i |-> 1, icons |-> {}, seen |-> {}, all_present |-> FALSE,
     out |-> FALSE]

NoBatch == [state |-> "none", jobs |-> <<>>]

\* Calls of get_favicon_path() looked at side by side.
Calls == {1, 2}

NoCalls == [c \in Calls |-> [url |-> <<>>, path |-> <<>>]]

InitCache ==
    /\ files = {}
    /\ co = [p \in Procs |-> NoDownloader]
    /\ batch = [p \in Procs |-> NoBatch]
    /\ pr = NoCalls

NewProcess ==
    [alive |-> TRUE, pc |-> "idle", fdState |-> "none", fdIno |-> NoIno,
     flocked |-> FALSE, is_retry |-> FALSE, pid |-> 0, result |-> "none",
     attempts |-> 0, breaks |-> 0, called_at |-> 0]

InitLock ==
    /\ now = 0
    /\ rec = NoRecord
    /\ lk = [p \in Procs |-> NewProcess]
    /\ judged = {}
    /\ ctx = [p \in Procs |-> NoContext]
    /\ InitCache

Init == InitLock

Next ==
    \/ \E p \in Procs : CallAcquire(p) /\ UNCHANGED <<now, coVars>>
    \/ \E p \in Procs : AcquireOpen(p) /\ UNCHANGED <<now, coVars>>
    \/ \E p \in Procs : AcquireFlock(p) /\ UNCHANGED <<now, coVars>>
    \/ \E p \in Procs : AcquireWrite(p) /\ UNCHANGED <<now, coVars>>
    \/ \E p \in Procs : StaleRead(p) /\ UNCHANGED <<now, coVars>>
    \/ \E p \in Procs : StaleKill0(p) /\ UNCHANGED <<now, coVars>>
    \/ \E p \in Procs : StaleStat(p) /\ UNCHANGED <<now, coVars>>
    \/ \E p \in Procs : StaleKill9(p) /\ UNCHANGED <<now, coVars>>
    \/ \E p \in Procs : BreakLock(p) /\ UNCHANGED <<now, coVars>>
    \/ \E p \in Procs : CallRelease(p) /\ UNCHANGED <<now, coVars>>
    \/ \E p \in Procs : ReleaseUnlock(p) /\ UNCHANGED <<now, coVars>>
    \/ \E p \in Procs : ReleaseClose(p) /\ UNCHANGED <<now, coVars>>
    \/ \E p \in Procs : ReleaseUnlink(p) /\ UNCHANGED <<now, coVars>>
    \/ \E p \in Procs : Terminate(p) /\ UNCHANGED <<now, coVars>>
    \/ Tick

Spec == Init /\ [][Next]_vars

\* ------------------------------------------- two concurrent calls of acquire()
\* Processes 1 and 2 each call acquire() once and never release; every other
\* pid is of a process that ended earlier, and may have left its record.
Pair == {1, 2}

InitTwo ==
    /\ now = 0
    /\ \/ rec = NoRecord
       \/ rec = [ino |-> 1, content |-> <<NumProcs>>, mtime |-> 0]
    /\ lk = [p \in Procs |-> IF p \in Pair THEN NewProcess ELSE Gone(NewProcess)]
    /\ judged = {}
    /\ ctx = [p \in Procs |-> NoContext]
    /\ InitCache

NextTwo ==
    \/ \E p \in Pair : CallAcquire(p) /\ UNCHANGED <<now, coVars>>
    \/ \E p \in Pair : AcquireOpen(p) /\ UNCHANGED <<now, coVars>>
    \/ \E p \in Pair : AcquireFlock(p) /\ UNCHANGED <<now, coVars>>
    \/ \E p \in Pair : AcquireWrite(p) /\ UNCHANGED <<now, coVars>>
    \/ \E p \in Pair : StaleRead(p) /\ UNCHANGED <<now, coVars>>
    \/ \E p \in Pair : StaleKill0(p) /\ UNCHANGED <<now, coVars>>
    \/ \E p \in Pair : StaleStat(p) /\ UNCHANGED <<now, coVars>>
    \/ \E p \in Pair : StaleKill9(p) /\ UNCHANGED <<now, coVars>>
    \/ \E p \in Pair : BreakLock(p) /\ UNCHANGED <<now, coVars>>
    \/ Tick

SpecTwo == InitTwo /\ [][NextTwo]_vars

\* ------------------------------------------------------------- PathResolver
\* URLs are sequences of tokens; the tokens of Words stand for runs of \w
\* characters ("q1", "q2": two query strings).
Words == {"https", "http", "www", "a", "b", "com", "x", "q1", "q2"}

Url(n) ==
    CASE n = 1 -> <<"https", "://", "a", ".", "com", "/", "x", "?", "q1">>
      [] n = 2 -> <<"https", "://", "a", ".", "com", "/", "x", "?", "q2">>
      [] n = 3 -> <<"http", "://", "www", ".", "b", ".", "com", "/">>
      [] OTHER -> <<"b", ".", "com", "/", "?", "q1">>

IsDelim(t) == t \in {"?", "#"}

\* The first index from i on that holds a "?" or "#", Len(u) + 1 if none does.
RECURSIVE DelimFrom(_, _)
DelimFrom(u, i) ==
    IF i > Len(u) THEN i ELSE IF IsDelim(u[i]) THEN i ELSE DelimFrom(u, i + 1)

\* FAVICON_KEY_URL_RE.sub('', url), the pattern being [?#].*
KeyUrl(u) == SubSeq(u, 1, DelimFrom(u, 1) - 1)

\* get_favicon_url(url, size)
get_favicon_url(u, size) == <<"faviconV2", KeyUrl(u), size>>

\* Where the run of \w tokens that ends at i begins.
RECURSIVE WordRunStart(_, _)
WordRunStart(u, i) ==
    IF i > 1 /\ u[i - 1] \in Words THEN WordRunStart(u, i - 1) ELSE i

\* Where group 1 of FAVICON_FILE_RE starts for the "://" at k: past an
\* optional "www." unless that would leave the group empty.
GroupStart(u, k) ==
    IF k + 3 <= Len(u) /\ u[k + 1] = "www" /\ u[k + 2] = "." /\ ~IsDelim(u[k + 3])
    THEN k + 3 ELSE k + 1

\* The "://" tokens at which \w+://(?:www\.)?([^?#]+).* matches.
SchemeMatches(u) ==
    {k \in 2..Len(u) : /\ u[k] = "://"
                       /\ u[k - 1] \in Words
                       /\ GroupStart(u, k) <= Len(u)
                       /\ ~IsDelim(u[GroupStart(u, k)])}

\* FAVICON_FILE_RE.sub(r'\1', url): the leftmost match, which runs to the end
\* of the string, is replaced by its group 1; no match leaves url as it is.
FileUrl(u) ==
    IF SchemeMatches(u) = {} THEN u
    ELSE LET k == CHOOSE m \in SchemeMatches(u) : \A n \in SchemeMatches(u) : m <= n
             g == GroupStart(u, k)
         IN SubSeq(u, 1, WordRunStart(u, k - 1) - 1) \o SubSeq(u, g, DelimFrom(u, g) - 1)

\* urllib.parse.quote(file_url, safe=''): letters, digits and "_.-~" stay.
QuoteToken(t) ==
    CASE t = "/" -> "%2F"
      [] t = "://" -> "%3A%2F%2F"
      [] t = "?" -> "%3F"
      [] t = "#" -> "%23"
      [] OTHER -> t

Quote(u) == [i \in 1..Len(u) |-> QuoteToken(u[i])]

\* get_favicon_path(url): the SHA-256 digest is taken to be collision-free.
get_favicon_path(u) == <<"sha256", Quote(FileUrl(u)), ".png">>

\* ---------------------------------------------- get_favicon_path on its own
\* The URLs get_favicon_path() is called with: with or without a scheme, a
\* "www." prefix, a query string, a fragment.
Schemes == {<<>>, <<"http", "://">>, <<"https", "://">>}

WwwPrefixes == {<<>>, <<"www", ".">>}

UrlPaths == {<<"/">>, <<"/", "x">>}

Suffixes == {<<>>, <<"?", "q1">>, <<"#", "q2">>, <<"?", "q1", "#", "q2">>}

UrlSpace ==
    {sc \o w \o <<"a", ".", "com">> \o pa \o su :
        sc \in Schemes, w \in WwwPrefixes, pa \in UrlPaths, su \in Suffixes}

InitPath ==
    /\ now = 0
    /\ rec = NoRecord
    /\ lk = [p \in Procs |-> Gone(NewProcess)]
    /\ judged = {}
    /\ ctx = [p \in Procs |-> NoContext]
    /\ files = {}
    /\ co = [p \in Procs |-> NoDownloader]
    /\ batch = [p \in Procs |-> NoBatch]
    /\ pr \in [Calls -> {[url |-> u, path |-> <<>>] : u \in UrlSpace}]

\* get_favicon_path(url) returns.
GetFaviconPath(c) ==
    /\ pr[c].path = <<>>
    /\ pr' = [pr EXCEPT ![c].path = get_favicon_path(pr[c].url)]
    /\ UNCHANGED <<now, lockVars, files, co, batch>>

NextPath == \E c \in Calls : GetFaviconPath(c)

SpecPath == InitPath /\ [][NextPath]_vars

\* ------------------------------------------------------------ IconDownloader
MAX_RUN_TIME == 3
FAVICON_SIZE == 32

NumInvocations == 2
Invocations == 1..NumInvocations

\* The tab lists get_tabs() may return, as lists of URL numbers.
TabLists == {<<1, 2>>, <<3, 1, 3>>}

PathOf(n) == get_favicon_path(Url(n))

\* collections.OrderedDict(self.url_paths): one entry per URL, in the order
\* of first occurrence.
RECURSIVE UniqueUrls(_)
UniqueUrls(us) ==
    IF us = <<>> THEN <<>>
    ELSE LET init == UniqueUrls(SubSeq(us, 1, Len(us) - 1))
             last == us[Len(us)]
         IN IF \E i \in 1..Len(init) : init[i] = last THEN init ELSE Append(init, last)

\* Path.exists() of an icon path.
Exists(path) == path \in files

Missing(n) == ~Exists(PathOf(n))

\* As NeededUrls, without the "if not p.exists()" filter.
NeededUrlsUnfiltered(us) == UniqueUrls(us)

\* needed_path_urls
NeededUrls(us) == SelectSeq(UniqueUrls(us), Missing)

\* curl_in: one "output ... url ..." job per needed pair.
JobList(needed) ==
    [i \in 1..Len(needed) |->
        [output |-> PathOf(needed[i]), url |-> get_favicon_url(Url(needed[i]), FAVICON_SIZE)]]

\* As if the exception were caught and logged, and main() went on.
AbortedCaught(l) == [l EXCEPT !.pc = "ready"]

\* An uncaught exception ends the process: nothing is printed.
Aborted(l) == [Gone(l) EXCEPT !.pc = "aborted"]

\* main(): start_time = time.monotonic(); tabs = get_tabs(browser)
Main_Start(p, tabs) ==
    /\ lk[p].alive /\ lk[p].pc = "start"
    /\ co' = [co EXCEPT ![p].tabs = tabs, ![p].start_time = now]
    /\ lk' = [lk EXCEPT ![p].pc = "timeout"]
    /\ UNCHANGED <<now, pr, rec, judged, ctx, files, batch>>

\* main(): timeout = max(0, MAX_RUN_TIME_SEC - (time.monotonic() - start_time))
Main_Timeout(p) ==
    /\ lk[p].alive /\ lk[p].pc = "timeout"
    /\ LET left == MAX_RUN_TIME - (now - co[p].start_time)
       IN co' = [co EXCEPT ![p].timeout = IF left > 0 THEN left ELSE 0,
                           ![p].start_time = 0]
    /\ lk' = [lk EXCEPT ![p].pc = "download"]
    /\ UNCHANGED <<now, pr, rec, judged, ctx, files, batch>>

\* download(): needed_path_urls; nothing needed: return; else
\* self.lockfile.acquire() is called.
Download_Filter(p) ==
    /\ lk[p].alive /\ lk[p].pc = "download"
    /\ LET needed == NeededUrls(co[p].tabs)
       IN /\ co' = [co EXCEPT ![p].needed = needed,
                              ![p].all_present =
                                  \A i \in 1..Len(co[p].tabs) : PathOf(co[p].tabs[i]) \in files]
          /\ IF needed = <<>>
             THEN /\ lk' = [lk EXCEPT ![p].pc = "ready"]
                  /\ UNCHANGED <<rec, judged, ctx>>
             ELSE DoCall(p)
    /\ UNCHANGED <<now, pr, files, batch>>

\* As Download_AfterAcquire, with the "elif not ...: return" left out.
Download_AfterAcquireNoCheck(p) ==
    /\ lk[p].alive /\ lk[p].pc = "returned"
    /\ lk' = [lk EXCEPT ![p] = [@ EXCEPT !.pc = "popen"]]
    /\ UNCHANGED <<now, rec, judged, ctx, coVars>>

\* download(): "elif not self.lockfile.acquire(): return"; an exception out
\* of acquire() is not caught.
Download_AfterAcquire(p) ==
    /\ lk[p].alive /\ lk[p].pc = "returned"
    /\ lk' = [lk EXCEPT ![p] =
                 IF @.result = "true" THEN [@ EXCEPT !.pc = "popen"]
                 ELSE IF @.result = "false" THEN [@ EXCEPT !.pc = "ready"]
                 ELSE Aborted(@)]
    /\ UNCHANGED <<now, rec, judged, ctx, coVars>>

\* download(): self.proc = subprocess.Popen(['nohup', '/usr/bin/curl', ...]),
\* which may fail (OSError, not caught), and the job list written to its
\* stdin, the first thing communicate() does.
Download_Popen(p, ok) ==
    /\ lk[p].alive /\ lk[p].pc = "popen"
    /\ IF ok
       THEN /\ batch' = [batch EXCEPT ![p] = [state |-> "running",
                                              jobs |-> JobList(co[p].needed)]]
            /\ co' = [co EXCEPT ![p].proc = TRUE, ![p].launched_at = now]
            /\ lk' = [lk EXCEPT ![p].pc = "communicate"]
            /\ UNCHANGED judged
       ELSE /\ lk' = [lk EXCEPT ![p] = Aborted(@)]
            /\ judged' = {e \in judged : e[2] # p}
            /\ UNCHANGED <<co, batch>>
    /\ UNCHANGED <<now, pr, rec, ctx, files>>

\* download(): self.proc.communicate(input=...): with stdin the only pipe and
\* no timeout given, it writes the input and then calls self.wait(), which
\* returns when the process has ended.
Download_Communicate(p) ==
    /\ lk[p].alive /\ lk[p].pc = "communicate"
    /\ batch[p].state = "exited"
    /\ lk' = [lk EXCEPT ![p].pc = "wait"]
    /\ co' = [co EXCEPT ![p].launched_at = now]
    /\ UNCHANGED <<now, pr, rec, judged, ctx, files, batch>>

\* download(): self.proc.wait(timeout=self.timeout): returns once the process
\* has ended, raises TimeoutExpired (not caught) once the timeout is over.
Download_Wait(p) ==
    /\ lk[p].alive /\ lk[p].pc = "wait"
    /\ batch[p].state = "exited" \/ now - co[p].launched_at >= co[p].timeout
    /\ IF batch[p].state = "exited"
       THEN /\ lk' = [lk EXCEPT ![p].pc = "ready"]
            /\ UNCHANGED judged
       ELSE /\ lk' = [lk EXCEPT ![p] = Aborted(@)]
            /\ judged' = {e \in judged : e[2] # p}
    /\ co' = [co EXCEPT ![p].launched_at = 0]
    /\ UNCHANGED <<now, pr, rec, ctx, files, batch>>

\* As IsDownloaded, with "return is_downloaded" left out: the caller sees None.
IsDownloadedNoReturn(path) == FALSE

\* is_icon_downloaded(): is_downloaded = icon_path.exists()
IsDownloaded(path) == Exists(path)

\* main(): "if downloader.is_icon_downloaded(path): result['icon'] = ...", for
\* the next tab.  is_icon_downloaded() calls self.lockfile.release() when
\* self.proc is set and self.proc.poll() is None; release() is taken in one
\* step here (flock(LOCK_UN), close, unlink).
IsIconDownloaded(p) ==
    /\ lk[p].alive /\ lk[p].pc = "ready"
    /\ co[p].i <= Len(co[p].tabs)
    /\ LET i == co[p].i
           path == PathOf(co[p].tabs[i])
           release == co[p].proc /\ batch[p].state = "running"
       IN /\ co' = [co EXCEPT ![p].i = i + 1,
                              ![p].icons = IF IsDownloaded(path) THEN @ \cup {i} ELSE @,
                              ![p].seen = IF path \in files THEN @ \cup {i} ELSE @,
                              ![p].proc = IF release THEN FALSE ELSE @]
          /\ IF release /\ lk[p].fdState = "open"
             THEN /\ lk' = [lk EXCEPT ![p].flocked = FALSE, ![p].fdState = "none",
                                      ![p].fdIno = NoIno]
                  /\ rec' = NoRecord
             ELSE UNCHANGED <<lk, rec>>
    /\ UNCHANGED <<now, pr, judged, ctx, files, batch>>

\* main(): print(json.dumps(tabs)), and the process ends.
Main_Print(p) ==
    /\ lk[p].alive /\ lk[p].pc = "ready"
    /\ co[p].i > Len(co[p].tabs)
    /\ co' = [co EXCEPT ![p].out = TRUE]
    /\ lk' = [lk EXCEPT ![p] = [Gone(@) EXCEPT !.pc = "exited"]]
    /\ judged' = {e \in judged : e[2] # p}
    /\ UNCHANGED <<now, pr, rec, ctx, files, batch>>

\* curl writes the output file of one of its jobs.
BatchWrite(p, j) ==
    /\ batch[p].state = "running"
    /\ j \in 1..Len(batch[p].jobs)
    /\ batch[p].jobs[j].output \notin files
    /\ files' = files \cup {batch[p].jobs[j].output}
    /\ UNCHANGED <<now, pr, lockVars, co, batch>>

\* curl ends, whatever it has fetched.
BatchExit(p) ==
    /\ batch[p].state = "running"
    /\ batch' = [batch EXCEPT ![p].state = "exited"]
    /\ UNCHANGED <<now, pr, lockVars, files, co>>

InitCoord ==
    /\ now = 0
    /\ rec = NoRecord
    /\ lk = [p \in Procs |-> IF p \in Invocations
                             THEN [NewProcess EXCEPT !.pc = "start"]
                             ELSE Gone(NewProcess)]
    /\ judged = {}
    /\ ctx = [p \in Procs |-> NoContext]
    /\ InitCache

NextCoord ==
    \/ \E p \in Invocations : \E t \in TabLists : Main_Start(p, t)
    \/ \E p \in Invocations : Main_Timeout(p)
    \/ \E p \in Invocations : Download_Filter(p)
    \/ \E p \in Invocations : AcquireOpen(p) /\ UNCHANGED <<now, coVars>>
    \/ \E p \in Invocations : AcquireFlock(p) /\ UNCHANGED <<now, coVars>>
    \/ \E p \in Invocations : AcquireWrite(p) /\ UNCHANGED <<now, coVars>>
    \/ \E p \in Invocations : StaleRead(p) /\ UNCHANGED <<now, coVars>>
    \/ \E p \in Invocations : StaleKill0(p) /\ UNCHANGED <<now, coVars>>
    \/ \E p \in Invocations : StaleStat(p) /\ UNCHANGED <<now, coVars>>
    \/ \E p \in Invocations : StaleKill9(p) /\ UNCHANGED <<now, coVars>>
    \/ \E p \in Invocations : BreakLock(p) /\ UNCHANGED <<now, coVars>>
    \/ \E p \in Invocations : Download_AfterAcquire(p)
    \/ \E p \in Invocations : \E ok \in BOOLEAN : Download_Popen(p, ok)
    \/ \E p \in Invocations : Download_Communicate(p)
    \/ \E p \in Invocations : Download_Wait(p)
    \/ \E p \in Invocations : IsIconDownloaded(p)
    \/ \E p \in Invocations : Main_Print(p)
    \/ \E p \in Invocations : \E j \in DOMAIN batch[p].jobs : BatchWrite(p, j)
    \/ \E p \in Invocations : BatchExit(p)
    \/ Tick

SpecCoord == InitCoord /\ [][NextCoord]_vars

\* ------------------------------------------------- one invocation on its own
\* Invocation 1 runs alone: every other pid is of a process that ended
\* earlier.  Its flock is then never refused, so the steps of is_stale() and
\* break_lock() are never enabled and are left out.
InitOne ==
    /\ now = 0
    /\ rec = NoRecord
    /\ lk = [p \in Procs |-> IF p = 1 THEN [NewProcess EXCEPT !.pc = "start"]
                             ELSE Gone(NewProcess)]
    /\ judged = {}
    /\ ctx = [p \in Procs |-> NoContext]
    /\ InitCache

OneStep ==
    \/ \E t \in TabLists : Main_Start(1, t)
    \/ Main_Timeout(1)
    \/ Download_Filter(1)
    \/ AcquireOpen(1) /\ UNCHANGED <<now, coVars>>
    \/ AcquireFlock(1) /\ UNCHANGED <<now, coVars>>
    \/ AcquireWrite(1) /\ UNCHANGED <<now, coVars>>
    \/ Download_AfterAcquire(1)
    \/ \E ok \in BOOLEAN : Download_Popen(1, ok)
    \/ Download_Communicate(1)
    \/ Download_Wait(1)
    \/ IsIconDownloaded(1)
    \/ Main_Print(1)

NextOne ==
    \/ \E t \in TabLists : Main_Start(1, t)
    \/ Main_Timeout(1)
    \/ Download_Filter(1)
    \/ AcquireOpen(1) /\ UNCHANGED <<now, coVars>>
    \/ AcquireFlock(1) /\ UNCHANGED <<now, coVars>>
    \/ AcquireWrite(1) /\ UNCHANGED <<now, coVars>>
    \/ Download_AfterAcquire(1)
    \/ \E ok \in BOOLEAN : Download_Popen(1, ok)
    \/ Download_Communicate(1)
    \/ Download_Wait(1)
    \/ IsIconDownloaded(1)
    \/ Main_Print(1)
    \/ \E j \in DOMAIN batch[1].jobs : BatchWrite(1, j)
    \/ BatchExit(1)
    \/ Tick

\* The invocation, whenever it can take a step, eventually takes one; nothing
\* is assumed of curl or of the clock.
FairOne == InitOne /\ [][NextOne]_vars /\ WF_vars(OneStep)

\* ------------------------------------------- LockFile as a context manager
\* Processes 1 and 2 each run "with lock: body" once (the decorator of
\* __call__ wraps its function in the same "with self:").
\* __enter__: self.acquire() is called.
Enter(p) ==
    /\ lk[p].alive /\ lk[p].pc = "idle"
    /\ DoCall(p)

\* __enter__: the value of acquire() is dropped and self is returned: the
\* body starts; an exception out of acquire() leaves the "with" statement.
EnterBody(p) ==
    /\ lk[p].alive /\ lk[p].pc = "returned"
    /\ lk' = [lk EXCEPT ![p].pc = IF lk[p].result = "raised" THEN "enter_raised" ELSE "body"]
    /\ UNCHANGED <<rec, judged, ctx>>

\* The body ends and __exit__ calls self.release().  "if self.lock_file:" is
\* false for None alone; fcntl.flock() on a file that acquire() closed raises
\* ValueError.
Exit(p) ==
    /\ lk[p].alive /\ lk[p].pc = "body"
    /\ lk' = [lk EXCEPT ![p].pc = CASE lk[p].fdState = "none" -> "left"
                                     [] lk[p].fdState = "closed" -> "exit_raised"
                                     [] OTHER -> "rel_unlock"]
    /\ judged' = {e \in judged : e[2] # p}
    /\ UNCHANGED <<rec, ctx>>

InitScoped ==
    /\ now = 0
    /\ rec = NoRecord
    /\ lk = [p \in Procs |-> IF p \in Pair THEN NewProcess ELSE Gone(NewProcess)]
    /\ judged = {}
    /\ ctx = [p \in Procs |-> NoContext]
    /\ InitCache

NextScoped ==
    \/ \E p \in Pair : Enter(p) /\ UNCHANGED <<now, coVars>>
    \/ \E p \in Pair : AcquireOpen(p) /\ UNCHANGED <<now, coVars>>
    \/ \E p \in Pair : AcquireFlock(p) /\ UNCHANGED <<now, coVars>>
    \/ \E p \in Pair : AcquireWrite(p) /\ UNCHANGED <<now, coVars>>
    \/ \E p \in Pair : StaleRead(p) /\ UNCHANGED <<now, coVars>>
    \/ \E p \in Pair : StaleKill0(p) /\ UNCHANGED <<now, coVars>>
    \/ \E p \in Pair : StaleStat(p) /\ UNCHANGED <<now, coVars>>
    \/ \E p \in Pair : StaleKill9(p) /\ UNCHANGED <<now, coVars>>
    \/ \E p \in Pair : BreakLock(p) /\ UNCHANGED <<now, coVars>>
    \/ \E p \in Pair : EnterBody(p) /\ UNCHANGED <<now, coVars>>
    \/ \E p \in Pair : Exit(p) /\ UNCHANGED <<now, coVars>>
    \/ \E p \in Pair : ReleaseUnlock(p) /\ UNCHANGED <<now, coVars>>
    \/ \E p \in Pair : ReleaseClose(p) /\ UNCHANGED <<now, coVars>>
    \/ \E p \in Pair : ReleaseUnlink(p) /\ UNCHANGED <<now, coVars>>
    \/ Tick

SpecScoped == InitScoped /\ [][NextScoped]_vars

\* ------------------------------------------------------------------ claims
\* C1: no two live processes hold the lock at once (acquire() told both True
\* and neither has started release()), unless one of them was judged stale.
\* The exception is read at its widest: a verdict of any process on either
\* holder excuses the pair, so a violation is one under every reading.
JudgedStale(q) == \E e \in judged : e[2] = q

C1_MutualExclusion ==
    \A p \in Holders : \A q \in Holders \ {p} : JudgedStale(p) \/ JudgedStale(q)

BothReturned == \A p \in Pair : lk[p].alive /\ lk[p].pc = "returned"

FirstCall == IF lk[1].called_at <= lk[2].called_at THEN lk[1].called_at ELSE lk[2].called_at

\* C2 (as claimed): of two concurrent acquire() calls from an unlocked state,
\* with no release, exactly one returns True and the other False.
C2_ExactlyOneOriginal ==
    BothReturned =>
        \E p \in Pair : lk[p].result = "true" /\ \A q \in Pair \ {p} : lk[q].result = "false"

\* C2 (amended): the same, for calls that are both over before the staleness
\* threshold has elapsed since the first of them was made.
C2_ExactlyOneWithinThreshold ==
    (BothReturned /\ now - FirstCall <= StaleAge) =>
        \E p \in Pair : lk[p].result = "true" /\ \A q \in Pair \ {p} : lk[q].result = "false"

\* C2 witness: both calls have returned within the threshold, one True and one
\* False, and they overlapped: the loser opened the record before the winner
\* wrote its pid (which is still there), and time has passed since.
C2_Witness ==
    /\ BothReturned
    /\ now - FirstCall <= StaleAge
    /\ now > FirstCall
    /\ \E p \in Pair : /\ lk[p].result = "true" /\ rec.content = <<p>>
                       /\ \E q \in Pair : lk[q].result = "false" /\ lk[q].attempts = 1

\* C6: acquire() called on the record of a process that is gone, with no live
\* process holding or working on the lock, returns True within one retry.
C6_DeadOwnerReacquired ==
    \A p \in Procs :
        (lk[p].alive /\ lk[p].pc = "returned" /\ ctx[p][1] = "dead_owner") =>
            lk[p].result = "true" /\ lk[p].attempts <= 2 /\ lk[p].breaks <= 1

C6_Witness ==
    \E p \in Procs :
        /\ lk[p].alive /\ lk[p].pc = "returned" /\ ctx[p][1] = "dead_owner"
        /\ rec.content = <<p>>
        /\ ~lk[ctx[p][2]].alive

\* C7: acquire() called while a live process has held the lock for longer than
\* the threshold terminates that process, breaks the record and returns True.
C7_AgedOwnerBroken ==
    \A p \in Procs :
        (lk[p].alive /\ lk[p].pc = "returned" /\ ctx[p][1] = "aged_owner") =>
            lk[p].result = "true" /\ ~lk[ctx[p][2]].alive /\ lk[p].breaks = 1

\* The invocation has launched its batch, the batch is still running and the
\* timeout the invocation gave itself is over.
DeadlinePassed(p) ==
    /\ lk[p].alive /\ co[p].proc /\ batch[p].state = "running"
    /\ now - co[p].launched_at >= co[p].timeout

\* The invocation is waiting for its batch and can take no step.
Blocked(p) ==
    /\ lk[p].alive /\ lk[p].pc \in {"communicate", "wait"}
    /\ ~ENABLED (Download_Communicate(p) \/ Download_Wait(p))

\* C3: an invocation that launched a batch is not held up by it past its
\* deadline (with a deadline of zero: not at all).
C3_BoundedWait == \A p \in Invocations : DeadlinePassed(p) => ~Blocked(p)

ReadinessChecked(p) == lk[p].alive /\ lk[p].pc = "ready" /\ co[p].i > Len(co[p].tabs)

\* C4: an invocation that launched a batch has, when its readiness check is
\* over, released the lock: it holds no OS lock and its record is gone.
C4_ReleasedAfterCheck ==
    \A p \in Invocations :
        (ReadinessChecked(p) /\ batch[p].state # "none") =>
            ~lk[p].flocked /\ lk[p].fdState # "open" /\ rec.content # <<p>>

\* C5: an invocation that found every requested file present makes no lock
\* attempt (it never opens the record) and launches no batch.
C5_NothingNeeded ==
    \A p \in Invocations :
        (lk[p].alive /\ co[p].all_present) =>
            /\ lk[p].attempts = 0 /\ lk[p].fdState = "none" /\ ~lk[p].flocked
            /\ lk[p].pc = "ready"
            /\ ~co[p].proc /\ batch[p].state = "none"

C5_Witness ==
    \E p \in Invocations :
        /\ ReadinessChecked(p) /\ co[p].all_present
        /\ co[p].icons = 1..Len(co[p].tabs)

\* C8: the job list handed to a batch holds no two jobs for one output path.
C8_OneJobPerPath ==
    \A p \in Invocations :
        \A i, j \in DOMAIN batch[p].jobs :
            batch[p].jobs[i].output = batch[p].jobs[j].output => i = j

\* C9: once the deadline is over with the batch still running, the invocation
\* goes on to emit its output (unless another invocation kills it).
C9_TimeoutNotAnError ==
    \A p \in Invocations : DeadlinePassed(p) ~> (co[p].out \/ lk[p].pc = "dead")

\* C10: each tab checked so far is annotated exactly if its icon file was
\* there at the moment of its readiness check.
C10_AnnotatedIffPresent ==
    \A p \in Invocations :
        \A i \in 1..(co[p].i - 1) : (i \in co[p].icons) <=> (i \in co[p].seen)

\* C10 witness: an invocation that needed icons, found the lock busy and
\* launched nothing, has output with a tab annotated: the file came from
\* another invocation's batch.
C10_Witness ==
    \E p \in Invocations :
        /\ co[p].out /\ co[p].needed # <<>> /\ batch[p].state = "none"
        /\ co[p].icons # {} /\ co[p].icons # 1..Len(co[p].tabs)

\* C11: a batch is launched only by an invocation that acquire() told True;
\* an invocation that acquire() told False launches nothing, has made that one
\* call only, and is at the readiness check or has ended with its output
\* emitted.
C11_CompetitorsOptOut ==
    \A p \in Invocations :
        /\ batch[p].state # "none" => lk[p].result = "true"
        /\ (lk[p].result = "false" /\ lk[p].pc # "returned") =>
               /\ batch[p].state = "none" /\ ~co[p].proc
               /\ lk[p].attempts <= 2
               /\ \/ lk[p].pc = "ready" /\ lk[p].alive
                  \/ lk[p].pc = "exited" /\ co[p].out

\* C11 witness: an invocation that acquire() told False has emitted its output
\* while the batch of the invocation that holds the lock is still running.
C11_Witness ==
    \E p \in Invocations : \E q \in Invocations \ {p} :
        /\ lk[p].result = "false" /\ lk[p].pc = "exited" /\ co[p].out
        /\ batch[p].state = "none"
        /\ batch[q].state = "running" /\ lk[q].alive /\ lk[q].flocked

\* C12: an invocation that acquired the lock and could not start its batch
\* has aborted: the process is gone, it has emitted no output and annotated
\* no tab.
C12_LaunchFailureFatal ==
    \A p \in Invocations :
        (lk[p].result = "true" /\ batch[p].state = "none"
         /\ lk[p].pc \notin {"returned", "popen", "dead"}) =>
            /\ lk[p].pc = "aborted" /\ ~lk[p].alive
            /\ ~co[p].out /\ co[p].icons = {} /\ co[p].i = 1

\* C12 witness: the launch failed although a file of one of the invocation's
\* tabs was already there.
C12_Witness ==
    \E p \in Invocations :
        /\ lk[p].pc = "aborted" /\ lk[p].result = "true" /\ batch[p].state = "none"
        /\ \E i \in 1..Len(co[p].tabs) : Exists(PathOf(co[p].tabs[i]))

\* v is u with a query string and/or a fragment appended.
AppendedTo(u, v) == \E k \in 1..Len(v) : IsDelim(v[k]) /\ SubSeq(v, 1, k - 1) = u

\* Where the host of u starts: after the scheme, if there is one.
HostStart(u) == IF Len(u) >= 2 /\ u[2] = "://" THEN 3 ELSE 1

\* v is u with "www." put in front of its host.
WwwAdded(u, v) ==
    v = SubSeq(u, 1, HostStart(u) - 1) \o <<"www", ".">> \o SubSeq(u, HostStart(u), Len(u))

BothResolved == \A c \in Calls : pr[c].path # <<>>

\* C13: get_favicon_path() returns the same path for a URL and for that URL
\* with a query string and/or fragment appended, and for a URL and that URL
\* with a leading "www." on its host, whether or not the URL has a scheme.
C13_Normalization ==
    (BothResolved /\ (AppendedTo(pr[1].url, pr[2].url) \/ WwwAdded(pr[1].url, pr[2].url))) =>
        pr[1].path = pr[2].path

\* C14: a call of acquire() makes at most two lock attempts and deletes the
\* record at most once; when its second attempt is refused too, it returns
\* False.
C14_BoundedRetry ==
    \A p \in Procs :
        /\ lk[p].attempts <= 2 /\ lk[p].breaks <= 1
        /\ (lk[p].alive /\ lk[p].pc = "returned" /\ lk[p].attempts = 2
            /\ lk[p].result # "true") =>
               lk[p].result = "false" /\ lk[p].breaks = 1

\* C15: a first attempt whose is_stale() found the record's content to be no
\* process identifier goes on to break the lock, whatever the record's age.
C15_UnreadableIsStale ==
    [][\A p \in Procs :
          (/\ lk[p].alive /\ lk[p].pc = "stale_stat" /\ lk[p].pid = 0 /\ ~lk[p].is_retry
           /\ lk'[p].alive /\ lk'[p].pc # "stale_stat") =>
              lk'[p].pc = "break"]_vars

\* C16: when acquire() kills the recorded process, the same call goes on to
\* break the lock.
C16_NoSpeculativeTermination ==
    [][\A p \in Procs :
          (/\ lk[p].alive /\ lk[p].pc = "stale_kill9" /\ lk'[p].pc # "stale_kill9"
           /\ lk[lk[p].pid].alive /\ ~lk'[lk[p].pid].alive) =>
              lk'[p].pc = "break"]_vars

\* C17: while a process holds the lock, acquire() having told it True, the
\* record at the lock path contains that process's identifier.
C17_RecordNamesOwner == \A p \in Holders : rec.ino # NoIno /\ rec.content = <<p>>

\* C18: the record of a process that holds the lock is deleted only by a
\* break_lock() of a process whose is_stale() judged that holder (its own
\* release() ends its holding before it deletes anything).
C18_RecordLifetime ==
    [][\A h \in Holders :
          (lk[h].fdIno = rec.ino /\ rec'.ino = NoIno) =>
              \E p \in Procs \ {h} :
                  lk[p].pc = "break" /\ lk'[p].pc = "open" /\ <<p, h>> \in judged]_vars

\* C19: an invocation that aborted after acquire() told it True has left no
\* record that names it.
C19_ReleaseOnFailure ==
    \A p \in Invocations :
        (lk[p].pc = "aborted" /\ lk[p].result = "true") =>
            ~(rec.ino # NoIno /\ rec.content = <<p>>)

\* C20: the body of a "with lock:" runs only in a process that acquire() told
\* True and that holds the OS lock, and leaving the scope does not raise.
C20_ScopedAcquisition ==
    \A p \in Pair :
        /\ (lk[p].alive /\ lk[p].pc = "body") => (lk[p].result = "true" /\ lk[p].flocked)
        /\ lk[p].pc # "exit_raised"

====
